---------------------------- MODULE Spec2Model ----------------------------
(***************************************************************************)
(* Model of src/syntax/expr.rs: the FuncArgs argument collection, the      *)
(* Expression value model and the ExpressionKind coercions.                *)
(*                                                                         *)
(* Every value is a record, so that values of different Rust types can be  *)
(* compared:                                                               *)
(*   Expression      [tag, ident] [tag, string] [tag, num] [tag, size]     *)
(*                   [tag, boolean]                                        *)
(*   Ident           [ident]      String  [string]     f64   [num]         *)
(*   bool            [boolean]    Size    [size]                           *)
(*   ScaleSize       [tag |-> "Absolute", size] [tag |-> "Scaled", scale]  *)
(*   Spanned<T>      [v, span]                                             *)
(*   Option<T>       [some |-> TRUE, v]  or  [some |-> FALSE]              *)
(*   ParseResult<T>  [ok |-> TRUE, v]    or  [ok |-> FALSE, msg]           *)
(* A destination type is the sequence of its wrappers followed by its base *)
(* type: Option<Spanned<f64>> is <<"Option", "Spanned", "f64">>.           *)
(***************************************************************************)
EXTENDS Integers, Sequences, FiniteSets, TLC

VARIABLES
    pos,        \* FuncArgs.pos: Vec<Spanned<PosArg>>
    key,        \* FuncArgs.key: Vec<Spanned<KeyArg>>
    last,       \* the call that has just returned: its operation, type and
                \* name arguments, the entries it removed and its return value;
                \* Idle once the caller has taken the return value
    \* History variables. An argument is identified by its span (see NextSpan).
    posAdded,   \* the spans of the arguments passed to add_pos, in call order
    posTaken,   \* the spans of the entries extractions removed from pos, in order
    posDropped, \* the spans of the entries clear() discarded from pos
    keyAdded,   \* the spans of the arguments passed to add_key, in call order
    keyTaken,   \* the spans of the entries extractions removed from key, in order
    keyDropped  \* the spans of the entries clear() discarded from key

vars == <<pos, key, last, posAdded, posTaken, posDropped,
          keyAdded, keyTaken, keyDropped>>

---------------------------------------------------------------------------
(* Bounds of the model *)

\* The number of add_pos and add_key calls of one behaviour.
MaxArgs == 3
\* The number of Option / Spanned wrappers around a destination's base type.
MaxWrap == 2
\* The spans of the expressions handed to from_expr directly.
MaxSpan == 2

---------------------------------------------------------------------------
(* Results, options, spans *)

Ok(v) == [ok |-> TRUE, v |-> v]
Err(msg) == [ok |-> FALSE, msg |-> msg]
Some(v) == [some |-> TRUE, v |-> v]
None == [some |-> FALSE]
Spanned(v, span) == [v |-> v, span |-> span]
\* The return value of a call that returns nothing
Unit == [unit |-> TRUE]

---------------------------------------------------------------------------
(* The Expression value model *)

IdentE(s) == [tag |-> "Ident", ident |-> s]
StrE(s) == [tag |-> "Str", string |-> s]
NumE(n) == [tag |-> "Num", num |-> n]
SizeE(s) == [tag |-> "Size", size |-> s]
BoolE(b) == [tag |-> "Bool", boolean |-> b]

\* The first integer that a 32-bit float cannot hold: 2^24 + 1.
BigNum == 2^24 + 1

Idents == {"default", "none", "Default", "NONE", "x"}
Strs == {"default", "none", "a"}
Nums == {0, 3, BigNum, BigNum + 2}
Sizes == {5, 10}

Expression ==
    {IdentE(s) : s \in Idents} \cup {StrE(s) : s \in Strs}
        \cup {NumE(n) : n \in Nums} \cup {SizeE(s) : s \in Sizes}
        \cup {BoolE(b) : b \in BOOLEAN}

\* The expressions that call sites pass as arguments in Spec.
ArgExprs == {IdentE("default"), NumE(3), SizeE(5)}

\* The keys of keyed arguments, and the names looked up.
Names == {"a", "b"}

---------------------------------------------------------------------------
(* `scale as f32`: a non-negative integer-valued f64 rounded to the nearest *)
(* value with a 24-bit significand, ties to even.                          *)

RECURSIVE BitLen(_)
BitLen(n) == IF n = 0 THEN 0 ELSE 1 + BitLen(n \div 2)

as_f32(n) ==
    LET ulp == 2^(IF BitLen(n) > 24 THEN BitLen(n) - 24 ELSE 0)
        q == n \div ulp
        r == n % ulp
    IN  IF 2 * r < ulp THEN q * ulp
        ELSE IF 2 * r > ulp THEN (q + 1) * ulp
        ELSE IF q % 2 = 0 THEN q * ulp ELSE (q + 1) * ulp

---------------------------------------------------------------------------
(* ExpressionKind: NAME and from_expr per destination type *)

BaseTypes == {"Expression", "Ident", "String", "f64", "bool", "Size", "ScaleSize"}
Wrappers == {"Option", "Spanned"}

RECURSIVE TypesOfDepth(_)
TypesOfDepth(d) ==
    IF d = 0 THEN {<<b>> : b \in BaseTypes}
    ELSE {<<w>> \o t : w \in Wrappers, t \in TypesOfDepth(d - 1)}

\* The destination types from_expr is applied to: up to MaxWrap wrappers.
Types == UNION {TypesOfDepth(d) : d \in 0..MaxWrap}

\* The destination types the extraction calls of Spec are instantiated with:
\* every base type, and wrapped types for each outcome of a wrapper (CoerceSpec
\* applies from_expr to every type of Types).
CallTypes ==
    {<<b>> : b \in BaseTypes}
        \cup {<<"Option", "f64">>, <<"Option", "Size">>, <<"Option", "Ident">>,
              <<"Spanned", "f64">>}

Base(T) == T[Len(T)]

\* const NAME of the kind! instances
KindName(b) ==
    CASE b = "Expression" -> "expression"
      [] b = "Ident" -> "identifier"
      [] b = "String" -> "string"
      [] b = "f64" -> "number"
      [] b = "bool" -> "boolean"
      [] b = "Size" -> "size"
      [] b = "ScaleSize" -> "number or size"

\* const NAME: the wrappers take their inner type's NAME.
NAME(T) == KindName(Base(T))

\* error!("expected {}", Self::NAME)
expected(T) == Err("expected " \o NAME(T))

\* from_expr of each kind! instance: its patterns on expr.v, then
\* `_ => error!("expected {}", Self::NAME)`
from_expr_Expression(expr) == Ok(expr.v)

from_expr_Ident(expr) ==
    IF expr.v.tag = "Ident" THEN Ok([ident |-> expr.v.ident])
    ELSE Err("expected " \o KindName("Ident"))

from_expr_String(expr) ==
    IF expr.v.tag = "Str" THEN Ok([string |-> expr.v.string])
    ELSE Err("expected " \o KindName("String"))

\* Mutant of from_expr_f64: a size is converted to a number implicitly.
from_expr_f64_loose(expr) ==
    IF expr.v.tag = "Num" THEN Ok([num |-> expr.v.num])
    ELSE IF expr.v.tag = "Size" THEN Ok([num |-> expr.v.size])
    ELSE Err("expected " \o KindName("f64"))

from_expr_f64(expr) ==
    IF expr.v.tag = "Num" THEN Ok([num |-> expr.v.num])
    ELSE Err("expected " \o KindName("f64"))

\* Mutant of from_expr_bool: a number is taken for a boolean.
from_expr_bool_truthy(expr) ==
    IF expr.v.tag = "Bool" THEN Ok([boolean |-> expr.v.boolean])
    ELSE IF expr.v.tag = "Num" THEN Ok([boolean |-> expr.v.num # 0])
    ELSE Err("expected " \o KindName("bool"))

from_expr_bool(expr) ==
    IF expr.v.tag = "Bool" THEN Ok([boolean |-> expr.v.boolean])
    ELSE Err("expected " \o KindName("bool"))

from_expr_Size(expr) ==
    IF expr.v.tag = "Size" THEN Ok([size |-> expr.v.size])
    ELSE Err("expected " \o KindName("Size"))

\* Mutant of from_expr_ScaleSize: the two arms build each other's variant.
from_expr_ScaleSize_swapped(expr) ==
    IF expr.v.tag = "Size" THEN Ok([tag |-> "Scaled", scale |-> expr.v.size])
    ELSE IF expr.v.tag = "Num"
         THEN Ok([tag |-> "Absolute", size |-> as_f32(expr.v.num)])
         ELSE Err("expected " \o KindName("ScaleSize"))

from_expr_ScaleSize(expr) ==
    IF expr.v.tag = "Size" THEN Ok([tag |-> "Absolute", size |-> expr.v.size])
    ELSE IF expr.v.tag = "Num"
         THEN Ok([tag |-> "Scaled", scale |-> as_f32(expr.v.num)])
         ELSE Err("expected " \o KindName("ScaleSize"))

\* The impl the compiler selects for a base type
kind_from_expr(b, expr) ==
    CASE b = "Expression" -> from_expr_Expression(expr)
      [] b = "Ident" -> from_expr_Ident(expr)
      [] b = "String" -> from_expr_String(expr)
      [] b = "f64" -> from_expr_f64(expr)
      [] b = "bool" -> from_expr_bool(expr)
      [] b = "Size" -> from_expr_Size(expr)
      [] b = "ScaleSize" -> from_expr_ScaleSize(expr)

\* Mutant of is_sentinel: the spelling is compared without regard to case.
is_sentinel_nocase(expr) ==
    IF expr.v.tag = "Ident"
    THEN expr.v.ident \in {"default", "none", "Default", "NONE"}
    ELSE FALSE

\* The test of Option<T>::from_expr: an identifier spelled "default" or "none"
is_sentinel(expr) ==
    IF expr.v.tag = "Ident" THEN expr.v.ident \in {"default", "none"} ELSE FALSE

\* Mutant of wrap_span: a fresh zero span instead of the input's.
wrap_span_zero(expr) == 0

\* The span Spanned<T>::from_expr attaches: `let span = expr.span`
wrap_span(expr) == expr.span

RECURSIVE from_expr(_, _)
\* Option<T>::from_expr, given T::from_expr
option_from_expr(T, expr) ==
    IF is_sentinel(expr) THEN Ok(None)
    ELSE LET r == from_expr(T, expr) IN IF r.ok THEN Ok(Some(r.v)) ELSE r

\* Spanned<T>::from_expr, given T::from_expr
spanned_from_expr(T, expr) ==
    LET span == wrap_span(expr)
        r == from_expr(T, expr)
    IN  IF r.ok THEN Ok(Spanned(r.v, span)) ELSE r

from_expr(T, expr) ==
    IF Len(T) = 1 THEN kind_from_expr(T[1], expr)
    ELSE IF T[1] = "Option" THEN option_from_expr(Tail(T), expr)
    ELSE spanned_from_expr(Tail(T), expr)

---------------------------------------------------------------------------
(* Vec operations used by FuncArgs (indices from 1) *)

\* Vec::push
push(vec, x) == Append(vec, x)

\* Vec::remove(index): the later elements shift down
remove(vec, i) == SubSeq(vec, 1, i - 1) \o SubSeq(vec, i + 1, Len(vec))

\* Mutant of swap_remove: the last element is dropped, whatever the index.
swap_remove_last(vec, i) == SubSeq(vec, 1, Len(vec) - 1)

\* Mutant of swap_remove: the later elements shift down, as Vec::remove does.
swap_remove_shift(vec, i) == SubSeq(vec, 1, i - 1) \o SubSeq(vec, i + 1, Len(vec))

\* Vec::swap_remove(index): the last element takes the removed one's slot
swap_remove(vec, i) ==
    [j \in 1..(Len(vec) - 1) |-> IF j = i THEN vec[Len(vec)] ELSE vec[j]]

\* The test of the position closure: arg.v.key.v.0 == name
key_matches(arg, name) == arg.v.key.v.ident = name

\* Iterator::position: the lowest matching index, 0 for Option::None
position(vec, name) ==
    LET hits == {i \in 1..Len(vec) : key_matches(vec[i], name)}
    IN  IF hits = {} THEN 0 ELSE CHOOSE i \in hits : \A j \in hits : i <= j

---------------------------------------------------------------------------
(* FuncArgs: each operation gives its return value, the sequence it leaves *)
(* and the entries it took out of the sequence.                            *)

\* FuncArgs::new
new == [pos |-> <<>>, key |-> <<>>]

add_pos(p, arg) == push(p, arg)

add_key(k, arg) == push(k, arg)

\* Mutant of expect: absence is passed on as a value instead of an error.
expect_lenient(T, opt) ==
    IF opt.ok THEN IF opt.v.some THEN Ok(opt.v.v) ELSE Ok(None)
    ELSE opt

\* expect: Ok(Some(v)) is Ok(v), Ok(None) is the error, Err(e) is Err(e)
expect(T, opt) ==
    IF opt.ok THEN IF opt.v.some THEN Ok(opt.v.v) ELSE expected(T)
    ELSE opt

\* Mutant of get_pos_opt: the newest argument is taken (pop), not the oldest.
get_pos_opt_lifo(T, p) ==
    IF p # <<>>
    THEN LET spanned == p[Len(p)]
             r == from_expr(T, spanned)
         IN  [ret |-> IF r.ok THEN Ok(Some(r.v)) ELSE r,
              seq |-> remove(p, Len(p)),
              taken |-> <<spanned>>]
    ELSE [ret |-> Ok(None), seq |-> p, taken |-> <<>>]

\* Mutant of get_pos_opt: a failed coercion is turned into absence (.ok()).
get_pos_opt_lenient(T, p) ==
    IF p # <<>>
    THEN LET spanned == p[1]
             r == from_expr(T, spanned)
         IN  [ret |-> IF r.ok THEN Ok(Some(r.v)) ELSE Ok(None),
              seq |-> remove(p, 1),
              taken |-> <<spanned>>]
    ELSE [ret |-> Ok(None), seq |-> p, taken |-> <<>>]

\* Mutant of get_pos_opt: the first argument is read and left in place.
get_pos_opt_peek(T, p) ==
    IF p # <<>>
    THEN LET spanned == p[1]
             r == from_expr(T, spanned)
         IN  [ret |-> IF r.ok THEN Ok(Some(r.v)) ELSE r,
              seq |-> p,
              taken |-> <<spanned>>]
    ELSE [ret |-> Ok(None), seq |-> p, taken |-> <<>>]

get_pos_opt(T, p) ==
    IF p # <<>>
    THEN LET spanned == p[1]
             r == from_expr(T, spanned)
         IN  [ret |-> IF r.ok THEN Ok(Some(r.v)) ELSE r,
              seq |-> remove(p, 1),
              taken |-> <<spanned>>]
    ELSE [ret |-> Ok(None), seq |-> p, taken |-> <<>>]

get_pos(T, p) ==
    LET c == get_pos_opt(T, p) IN [c EXCEPT !.ret = expect(T, c.ret)]

\* Mutant of pos_iter: yields a copy and leaves the sequence in place.
pos_iter_clone(p) ==
    [ret |-> [items |-> p], seq |-> p, taken |-> p]

\* pos(): mem::replace(&mut self.pos, vec![]) and the old vector's into_iter()
pos_iter(p) == [ret |-> [items |-> p], seq |-> <<>>, taken |-> p]

\* Mutant of get_key_opt: an absent inner option is flattened into absence.
get_key_opt_flat(T, k, name) ==
    LET index == position(k, name)
    IN  IF index # 0
        THEN LET value == k[index].v.value
                 r == from_expr(T, value)
             IN  [ret |-> IF ~r.ok THEN r
                          ELSE IF T[1] = "Option" /\ r.v = None THEN Ok(None)
                          ELSE Ok(Some(r.v)),
                  seq |-> swap_remove(k, index),
                  taken |-> <<k[index]>>]
        ELSE [ret |-> Ok(None), seq |-> k, taken |-> <<>>]

\* Mutant of get_key_opt: the entry found is read and left in place.
get_key_opt_peek(T, k, name) ==
    LET index == position(k, name)
    IN  IF index # 0
        THEN LET value == k[index].v.value
                 r == from_expr(T, value)
             IN  [ret |-> IF r.ok THEN Ok(Some(r.v)) ELSE r,
                  seq |-> k,
                  taken |-> <<k[index]>>]
        ELSE [ret |-> Ok(None), seq |-> k, taken |-> <<>>]

\* Mutant of get_key_opt: the entry is removed only when its value converts.
get_key_opt_keep_on_error(T, k, name) ==
    LET index == position(k, name)
    IN  IF index # 0
        THEN LET value == k[index].v.value
                 r == from_expr(T, value)
             IN  [ret |-> IF r.ok THEN Ok(Some(r.v)) ELSE r,
                  seq |-> IF r.ok THEN swap_remove(k, index) ELSE k,
                  taken |-> IF r.ok THEN <<k[index]>> ELSE <<>>]
        ELSE [ret |-> Ok(None), seq |-> k, taken |-> <<>>]

get_key_opt(T, k, name) ==
    LET index == position(k, name)
    IN  IF index # 0
        THEN LET value == k[index].v.value
                 r == from_expr(T, value)
             IN  [ret |-> IF r.ok THEN Ok(Some(r.v)) ELSE r,
                  seq |-> swap_remove(k, index),
                  taken |-> <<k[index]>>]
        ELSE [ret |-> Ok(None), seq |-> k, taken |-> <<>>]

get_key(T, k, name) ==
    LET c == get_key_opt(T, k, name) IN [c EXCEPT !.ret = expect(T, c.ret)]

\* Mutant of get_key_next: returns the last entry without removing it.
get_key_next_peek(k) ==
    IF k # <<>>
    THEN [ret |-> Some(k[Len(k)]), seq |-> k, taken |-> <<k[Len(k)]>>]
    ELSE [ret |-> None, seq |-> k, taken |-> <<>>]

\* Vec::pop
get_key_next(k) ==
    IF k # <<>>
    THEN [ret |-> Some(k[Len(k)]), seq |-> SubSeq(k, 1, Len(k) - 1),
          taken |-> <<k[Len(k)]>>]
    ELSE [ret |-> None, seq |-> k, taken |-> <<>>]

\* Mutant of keys: yields a copy and leaves the sequence in place.
keys_clone(k) ==
    [ret |-> [items |-> k], seq |-> k, taken |-> k]

\* keys(): mem::replace(&mut self.key, vec![]) and the old vector's into_iter()
keys(k) == [ret |-> [items |-> k], seq |-> <<>>, taken |-> k]

\* Mutant of clear: only the positional sequence is emptied.
clear_pos_only(p, k) ==
    [pos |-> <<>>, key |-> k]

clear(p, k) == [pos |-> <<>>, key |-> <<>>]

\* Mutant of is_empty: || in place of &&.
is_empty_either(p, k) == p = <<>> \/ k = <<>>

is_empty(p, k) == p = <<>> /\ k = <<>>

---------------------------------------------------------------------------
(* The state machine of one FuncArgs *)

Range(s) == {s[i] : i \in 1..Len(s)}
\* The spans of the entries of a sequence, in its order
Spans(s) == [i \in 1..Len(s) |-> s[i].span]

\* The call record of an operation
Call(op, T, name, arg, taken, ret) ==
    [op |-> op, ty |-> T, name |-> name, arg |-> arg, taken |-> taken,
     ret |-> ret]

\* The span of the next argument the parser files: arguments are numbered in
\* call-site order, and the number stands for the argument's source range.
NextSpan == Len(posAdded) + Len(keyAdded) + 1

\* The Spanned<KeyArg> the parser builds for `name: expr`
KeyArg(name, expr, span) ==
    Spanned([key |-> Spanned([ident |-> name], span),
             value |-> Spanned(expr, span)], span)

\* No call is returning: the binding code is between two calls.
Idle == Call("idle", <<>>, "", Unit, <<>>, Unit)

Init ==
    /\ pos = new.pos
    /\ key = new.key
    /\ last = Idle
    /\ posAdded = <<>>
    /\ posTaken = <<>>
    /\ posDropped = {}
    /\ keyAdded = <<>>
    /\ keyTaken = <<>>
    /\ keyDropped = {}

PosFrame == UNCHANGED <<pos, posAdded, posTaken, posDropped>>
KeyFrame == UNCHANGED <<key, keyAdded, keyTaken, keyDropped>>

\* Mutant of PosCall: a positional extraction also drains the keyed sequence.
PosCall_draining_key(op, T, c) ==
    /\ last = Idle
    /\ pos' = c.seq
    /\ posTaken' = posTaken \o Spans(c.taken)
    /\ key' = <<>>
    /\ keyTaken' = keyTaken \o Spans(key)
    /\ last' = Call(op, T, "", Unit, c.taken, c.ret)
    /\ UNCHANGED <<posAdded, posDropped, keyAdded, keyDropped>>

\* An extraction from pos: the call c = [ret, seq, taken]
PosCall(op, T, c) ==
    /\ last = Idle
    /\ pos' = c.seq
    /\ posTaken' = posTaken \o Spans(c.taken)
    /\ last' = Call(op, T, "", Unit, c.taken, c.ret)
    /\ UNCHANGED <<posAdded, posDropped>>
    /\ KeyFrame

\* An extraction from key: the call c = [ret, seq, taken]
KeyCall(op, T, name, c) ==
    /\ last = Idle
    /\ key' = c.seq
    /\ keyTaken' = keyTaken \o Spans(c.taken)
    /\ last' = Call(op, T, name, Unit, c.taken, c.ret)
    /\ UNCHANGED <<keyAdded, keyDropped>>
    /\ PosFrame

AddPos ==
    /\ last = Idle
    /\ NextSpan <= MaxArgs
    /\ \E e \in ArgExprs :
          LET arg == Spanned(e, NextSpan)
          IN  /\ pos' = add_pos(pos, arg)
              /\ posAdded' = Append(posAdded, arg.span)
              /\ last' = Call("add_pos", <<>>, "", arg, <<>>, Unit)
    /\ UNCHANGED <<posTaken, posDropped>>
    /\ KeyFrame

AddKey ==
    /\ last = Idle
    /\ NextSpan <= MaxArgs
    /\ \E name \in Names, e \in ArgExprs :
          LET arg == KeyArg(name, e, NextSpan)
          IN  /\ key' = add_key(key, arg)
              /\ keyAdded' = Append(keyAdded, arg.span)
              /\ last' = Call("add_key", <<>>, "", arg, <<>>, Unit)
    /\ UNCHANGED <<keyTaken, keyDropped>>
    /\ PosFrame

GetPos == \E T \in CallTypes : PosCall("get_pos", T, get_pos(T, pos))

GetPosOpt == \E T \in CallTypes : PosCall("get_pos_opt", T, get_pos_opt(T, pos))

PosIter == PosCall("pos", <<>>, pos_iter(pos))

GetKey ==
    \E T \in CallTypes, name \in Names :
        KeyCall("get_key", T, name, get_key(T, key, name))

GetKeyOpt ==
    \E T \in CallTypes, name \in Names :
        KeyCall("get_key_opt", T, name, get_key_opt(T, key, name))

GetKeyNext == KeyCall("get_key_next", <<>>, "", get_key_next(key))

Keys == KeyCall("keys", <<>>, "", keys(key))

Clear ==
    /\ last = Idle
    /\ pos' = clear(pos, key).pos
    /\ key' = clear(pos, key).key
    /\ posDropped' = posDropped \cup Range(Spans(pos))
    /\ keyDropped' = keyDropped \cup Range(Spans(key))
    /\ last' = Call("clear", <<>>, "", Unit, <<>>, Unit)
    /\ UNCHANGED <<posAdded, posTaken, keyAdded, keyTaken>>

IsEmpty ==
    /\ last = Idle
    /\ last' = Call("is_empty", <<>>, "", Unit, <<>>,
                  [bool |-> is_empty(pos, key)])
    /\ PosFrame
    /\ KeyFrame

\* The binding code takes the return value; the next call can start.
Return ==
    /\ last # Idle
    /\ last' = Idle
    /\ PosFrame
    /\ KeyFrame

Next ==
    \/ Return
    \/ AddPos
    \/ AddKey
    \/ GetPos
    \/ GetPosOpt
    \/ PosIter
    \/ GetKey
    \/ GetKeyOpt
    \/ GetKeyNext
    \/ Keys
    \/ Clear
    \/ IsEmpty

Spec == Init /\ [][Next]_vars

---------------------------------------------------------------------------
(* The coercions on their own: from_expr applied to every expression, span *)
(* and destination type of the bounds.                                     *)

FromExpr ==
    /\ last = Idle
    /\ \E T \in Types, e \in Expression, span \in 1..MaxSpan :
          LET expr == Spanned(e, span)
          IN  last' = Call("from_expr", T, "", expr, <<>>, from_expr(T, expr))
    /\ PosFrame
    /\ KeyFrame

CoerceNext ==
    \/ Return
    \/ FromExpr

CoerceSpec == Init /\ [][CoerceNext]_vars

---------------------------------------------------------------------------
(* What the specification says of the coercions, stated without from_expr  *)

(* The drain loop of a function's argument binding: the parser adds the    *)
(* arguments, and the binding code calls get_pos_opt and get_key_next for  *)
(* as long as is_empty answers false.                                      *)

DrainNext ==
    \/ Return
    \/ AddPos
    \/ AddKey
    \/ GetPosOpt
    \/ GetKeyNext
    \/ IsEmpty

\* The caller keeps calling: a call that is returning does return, and
\* while the collection is not empty each of the two extractions is
\* called again and again.
DrainFairness ==
    /\ WF_vars(Return)
    /\ SF_vars(~is_empty(pos, key) /\ GetPosOpt)
    /\ SF_vars(~is_empty(pos, key) /\ GetKeyNext)

DrainSpec == Init /\ [][DrainNext]_vars /\ DrainFairness

---------------------------------------------------------------------------

Tags == {"Ident", "Str", "Num", "Size", "Bool"}

\* The kind-name of each destination type in diagnostics
SpecName(b) ==
    CASE b = "Expression" -> "expression"
      [] b = "Ident" -> "identifier"
      [] b = "String" -> "string"
      [] b = "f64" -> "number"
      [] b = "bool" -> "boolean"
      [] b = "Size" -> "size"
      [] b = "ScaleSize" -> "number or size"

\* The variants each destination type accepts
SpecAccepts(b) ==
    CASE b = "Expression" -> Tags
      [] b = "Ident" -> {"Ident"}
      [] b = "String" -> {"Str"}
      [] b = "f64" -> {"Num"}
      [] b = "bool" -> {"Bool"}
      [] b = "Size" -> {"Size"}
      [] b = "ScaleSize" -> {"Size", "Num"}

\* The absence sentinel: the identifier `default` or `none`
SpecSentinel(e) == e.tag = "Ident" /\ e.ident \in {"default", "none"}

\* Whether expression e matches destination type T
RECURSIVE Matches(_, _)
Matches(T, e) ==
    IF Len(T) = 1 THEN e.tag \in SpecAccepts(T[1])
    ELSE IF T[1] = "Option" THEN SpecSentinel(e) \/ Matches(Tail(T), e)
    ELSE Matches(Tail(T), e)

\* The failure "expected <T's name>"
SpecExpected(T) == Err("expected " \o SpecName(Base(T)))

\* The payload of an expression as a value of its own primitive type
Payload(e) ==
    CASE e.tag = "Ident" -> [ident |-> e.ident]
      [] e.tag = "Str" -> [string |-> e.string]
      [] e.tag = "Num" -> [num |-> e.num]
      [] e.tag = "Size" -> [size |-> e.size]
      [] e.tag = "Bool" -> [boolean |-> e.boolean]

\* The indices of the keyed entries whose key text is name
Hits(k, name) == {i \in DOMAIN k : k[i].v.key.v.ident = name}

\* The lowest index of a non-empty set of indices
Lowest(S) == CHOOSE i \in S : \A j \in S : i <= j

NoDuplicateKeys(k) ==
    \A i, j \in DOMAIN k : k[i].v.key.v.ident = k[j].v.key.v.ident => i = j

\* The spans of a history that clear() has not discarded
Live(added, dropped) ==
    LET kept(s) == s \notin dropped IN SelectSeq(added, kept)

---------------------------------------------------------------------------
(* C1. FIFO law: the positional arguments leave pos in the order add_pos   *)
(* filed them. The arguments filed and not discarded are, in order, those  *)
(* the extractions took followed by those still in pos; a get_pos or       *)
(* get_pos_opt call that finds an argument takes the oldest one not yet    *)
(* consumed and returns that argument's coercion; pos() yields what it     *)
(* took, oldest first.                                                     *)
FIFOLaw ==
    /\ Live(posAdded, posDropped) = posTaken \o Spans(pos)
    /\ (last.op \in {"get_pos", "get_pos_opt"} /\ last.taken # <<>>) =>
          LET arg == last.taken[1]
              r == from_expr(last.ty, arg)
          IN  /\ Len(last.taken) = 1
              /\ \A s \in Range(posAdded) :
                    s < arg.span => s \in Range(posTaken) \cup posDropped
              /\ \A i \in DOMAIN pos : arg.span < pos[i].span
              /\ last.ret = IF ~r.ok THEN r
                            ELSE IF last.op = "get_pos" THEN Ok(r.v)
                            ELSE Ok(Some(r.v))
    /\ last.op = "pos" =>
          /\ last.ret.items = last.taken
          /\ \A i, j \in DOMAIN last.taken :
                i < j => last.taken[i].span < last.taken[j].span

\* Two arguments have been taken by strict calls and a third is still waiting.
FIFOWitness ==
    /\ last.op = "get_pos"
    /\ last.ret.ok
    /\ Len(posTaken) >= 2
    /\ pos # <<>>

---------------------------------------------------------------------------
(* C2. Keyed-lookup law: a get_key_opt(name) call returns Ok(None) iff no  *)
(* keyed entry has the key text name when it is called; and when no two    *)
(* entries share a key and the call returned a value, a second             *)
(* get_key_opt(name), for any destination type, returns Ok(None).          *)
KeyedLookupLaw ==
    [][(last = Idle /\ last'.op = "get_key_opt") =>
          LET name == last'.name
              present == Hits(key, name) # {}
          IN  /\ (last'.ret = Ok(None)) <=> ~present
              /\ (NoDuplicateKeys(key) /\ present /\ last'.ret.ok) =>
                    \A T \in CallTypes :
                        get_key_opt(T, key', name).ret = Ok(None)]_vars

\* A lookup by name has returned a value while other entries remain.
KeyedLookupWitness ==
    /\ last.op = "get_key_opt"
    /\ last.ret.ok
    /\ last.taken # <<>>
    /\ key # <<>>

---------------------------------------------------------------------------
(* C3. In every state is_empty() is true iff both sequences are empty,     *)
(* and iff get_pos_opt, for whatever destination type, and get_key_next    *)
(* would both return absence; an is_empty call returns just that.          *)
IsEmptyLaw ==
    /\ is_empty(pos, key) <=> (Len(pos) = 0 /\ Len(key) = 0)
    /\ \A T \in CallTypes :
          is_empty(pos, key) <=>
              (get_pos_opt(T, pos).ret = Ok(None) /\ get_key_next(key).ret = None)
    /\ last.op = "is_empty" => last.ret.bool = (Len(pos) = 0 /\ Len(key) = 0)

\* is_empty has answered false with only the keyed sequence non-empty.
IsEmptyWitness ==
    /\ last.op = "is_empty"
    /\ ~last.ret.bool
    /\ pos = <<>>
    /\ key # <<>>

---------------------------------------------------------------------------
(* C4. The strict forms. As claimed: get_pos<T> fails with "expected <T's  *)
(* name>" when pos is empty or its first value does not match T,           *)
(* get_key<T>(name) fails so when no keyed entry has that name, and in     *)
(* every other case the strict form returns the value the _opt form would  *)
(* return as present.                                                      *)
StrictFormsAsClaimed ==
    [][(last = Idle) =>
          /\ last'.op = "get_pos" =>
                IF pos = <<>> \/ ~Matches(last'.ty, pos[1].v)
                THEN last'.ret = SpecExpected(last'.ty)
                ELSE /\ last'.ret.ok
                     /\ get_pos_opt(last'.ty, pos).ret = Ok(Some(last'.ret.v))
          /\ last'.op = "get_key" =>
                IF Hits(key, last'.name) = {}
                THEN last'.ret = SpecExpected(last'.ty)
                ELSE /\ last'.ret.ok
                     /\ get_key_opt(last'.ty, key, last'.name).ret
                            = Ok(Some(last'.ret.v))]_vars

(* C4, amended: get_key<T>(name) also fails with "expected <T's name>"     *)
(* when the value of the first entry named name does not match T; in every *)
(* other case the strict form returns the value the _opt form would return *)
(* as present.                                                             *)
StrictForms ==
    [][(last = Idle) =>
          /\ last'.op = "get_pos" =>
                IF pos = <<>> \/ ~Matches(last'.ty, pos[1].v)
                THEN last'.ret = SpecExpected(last'.ty)
                ELSE /\ last'.ret.ok
                     /\ get_pos_opt(last'.ty, pos).ret = Ok(Some(last'.ret.v))
          /\ last'.op = "get_key" =>
                LET hits == Hits(key, last'.name)
                IN  IF \/ hits = {}
                       \/ ~Matches(last'.ty, key[Lowest(hits)].v.value.v)
                    THEN last'.ret = SpecExpected(last'.ty)
                    ELSE /\ last'.ret.ok
                         /\ get_key_opt(last'.ty, key, last'.name).ret
                                = Ok(Some(last'.ret.v))]_vars

\* get_key<f64> has failed on an entry that has the name and another type.
StrictFormsWitness ==
    /\ last.op = "get_key"
    /\ last.ty = <<"f64">>
    /\ last.taken # <<>>
    /\ last.ret = Err("expected number")

---------------------------------------------------------------------------
(* C5. A get_pos_opt<T> call returns Ok(None) exactly when pos is empty    *)
(* when it is called; when the first value is there and does not match T   *)
(* the call fails with "expected <T's name>".                              *)
GetPosOptAbsence ==
    [][(last = Idle /\ last'.op = "get_pos_opt") =>
          /\ (last'.ret = Ok(None)) <=> (pos = <<>>)
          /\ (pos # <<>> /\ ~Matches(last'.ty, pos[1].v)) =>
                last'.ret = SpecExpected(last'.ty)]_vars

\* get_pos_opt has failed on a value of another type.
GetPosOptWitness ==
    /\ last.op = "get_pos_opt"
    /\ last.taken # <<>>
    /\ ~last.ret.ok

---------------------------------------------------------------------------
---------------------------------------------------------------------------
(* C7. As claimed: each of Expression, Ident, String, f64, bool and Size   *)
(* matches exactly one variant: there is one variant whose expressions all *)
(* coerce, and the expressions of the other four all fail.                 *)
OneVariant(T, span) ==
    \E t \in Tags :
        \A e \in Expression : from_expr(T, Spanned(e, span)).ok <=> e.tag = t

PrimitiveOneVariantAsClaimed ==
    (/\ last.op = "from_expr"
     /\ Len(last.ty) = 1
     /\ last.ty[1] \in {"Expression", "Ident", "String", "f64", "bool", "Size"})
        => OneVariant(last.ty, last.arg.span)

(* C7, amended: each of Ident, String, f64, bool and Size matches exactly  *)
(* one variant and fails for the other four; Expression matches all five.  *)
PrimitiveOneVariant ==
    (last.op = "from_expr" /\ Len(last.ty) = 1) =>
        /\ last.ty[1] \in {"Ident", "String", "f64", "bool", "Size"} =>
              /\ OneVariant(last.ty, last.arg.span)
              /\ last.ret.ok <=> SpecAccepts(last.ty[1]) = {last.arg.v.tag}
        /\ last.ty[1] = "Expression" =>
              /\ \A e \in Expression :
                    from_expr(last.ty, Spanned(e, last.arg.span)).ok
              /\ last.ret.ok

\* f64 has refused a size, one of its other four variants.
PrimitiveOneVariantWitness ==
    /\ last.op = "from_expr"
    /\ last.ty = <<"f64">>
    /\ last.arg.v.tag = "Size"
    /\ ~last.ret.ok

---------------------------------------------------------------------------
(* C8. Optional-coercion law: Option<T>::from_expr yields Ok(None) iff the *)
(* expression is the identifier `default` or `none`, whatever T is; for    *)
(* every other expression the result is T's own: a success wrapped as      *)
(* presence, a failure as T produces it, "expected <T's name>".            *)
OptionalCoercionLaw ==
    (last.op = "from_expr" /\ Len(last.ty) > 1 /\ last.ty[1] = "Option") =>
        LET T == Tail(last.ty)
            inner == from_expr(T, last.arg)
        IN  /\ (last.ret = Ok(None)) <=> SpecSentinel(last.arg.v)
            /\ ~SpecSentinel(last.arg.v) =>
                  IF inner.ok THEN last.ret = Ok(Some(inner.v))
                  ELSE last.ret = inner /\ last.ret = SpecExpected(T)

\* Option<Ident> has turned the identifier `none` into absence.
OptionalCoercionWitness ==
    /\ last.op = "from_expr"
    /\ last.ty = <<"Option", "Ident">>
    /\ last.arg.v = IdentE("none")
    /\ last.ret = Ok(None)

---------------------------------------------------------------------------
(* C9. Span-preservation law: Spanned<T>::from_expr succeeds exactly when  *)
(* T::from_expr does, its value is T's value and its span is the input's   *)
(* span; when T fails, T's error is the result.                            *)
SpanPreservationLaw ==
    (last.op = "from_expr" /\ Len(last.ty) > 1 /\ last.ty[1] = "Spanned") =>
        LET inner == from_expr(Tail(last.ty), last.arg)
        IN  /\ last.ret.ok <=> inner.ok
            /\ last.ret.ok => last.ret.v = Spanned(inner.v, last.arg.span)
            /\ ~last.ret.ok => last.ret = inner

\* Spanned<f64> has coerced a number whose span is not the first one.
SpanPreservationWitness ==
    /\ last.op = "from_expr"
    /\ last.ty = <<"Spanned", "f64">>
    /\ last.arg.span > 1
    /\ last.ret.ok
    /\ last.ret.v.span = last.arg.span

---------------------------------------------------------------------------
(* C10. ScaleSize, as claimed: a size is mapped to Absolute(size), a       *)
(* number to Scaled(number), and identifiers, strings and booleans, and    *)
(* only those, fail with "expected number or size".                        *)
ScaleSizeAsClaimed ==
    (last.op = "from_expr" /\ last.ty = <<"ScaleSize">>) =>
        LET e == last.arg.v
        IN  CASE e.tag = "Size" ->
                    last.ret = Ok([tag |-> "Absolute", size |-> e.size])
              [] e.tag = "Num" ->
                    last.ret = Ok([tag |-> "Scaled", scale |-> e.num])
              [] OTHER -> last.ret = Err("expected number or size")

\* Whether a non-negative integer is the value of a 32-bit float: it fits a
\* 24-bit significand.
IsF32(n) == n % 2^(IF BitLen(n) > 24 THEN BitLen(n) - 24 ELSE 0) = 0

Distance(a, b) == IF a < b THEN b - a ELSE a - b

(* C10, amended: a number is mapped to Scaled of the number narrowed to a  *)
(* 32-bit float, a nearest such value, which is the number itself only     *)
(* when a 32-bit float can hold it; the rest is as claimed.                *)
ScaleSizeCoercion ==
    (last.op = "from_expr" /\ last.ty = <<"ScaleSize">>) =>
        LET e == last.arg.v
        IN  CASE e.tag = "Size" ->
                    last.ret = Ok([tag |-> "Absolute", size |-> e.size])
              [] e.tag = "Num" ->
                    /\ last.ret.ok
                    /\ last.ret.v.tag = "Scaled"
                    /\ IsF32(last.ret.v.scale)
                    /\ \A m \in (e.num - 2)..(e.num + 2) :
                          (m >= 0 /\ IsF32(m)) =>
                              Distance(last.ret.v.scale, e.num)
                                  <= Distance(m, e.num)
              [] OTHER -> last.ret = Err("expected number or size")

\* A number no 32-bit float holds has been narrowed to another value.
ScaleSizeWitness ==
    /\ last.op = "from_expr"
    /\ last.ty = <<"ScaleSize">>
    /\ last.arg.v.tag = "Num"
    /\ last.ret.ok
    /\ last.ret.v.scale # last.arg.v.num

---------------------------------------------------------------------------
\* The value a base type other than ScaleSize makes of an expression it accepts
InnerValue(b, e) == IF b = "Expression" THEN e ELSE Payload(e)

(* C11. Extraction through the optional wrapper, as claimed:               *)
(* get_key_opt<Option<T>>(name) returns Ok(None) when no keyed entry has   *)
(* the name, Ok(Some(None)) when the entry's value is the identifier       *)
(* `default` or `none`, and Ok(Some(Some(v))) when the entry's value has   *)
(* the variant T accepts, with payload v.                                  *)
ThreeOutcomesAsClaimed ==
    [][(/\ last = Idle
        /\ last'.op = "get_key_opt"
        /\ Len(last'.ty) = 2
        /\ last'.ty[1] = "Option"
        /\ last'.ty[2] # "ScaleSize") =>
          LET b == last'.ty[2]
              hits == Hits(key, last'.name)
          IN  IF hits = {} THEN last'.ret = Ok(None)
              ELSE LET e == key[Lowest(hits)].v.value.v
                   IN  /\ SpecSentinel(e) => last'.ret = Ok(Some(None))
                       /\ e.tag \in SpecAccepts(b) =>
                             last'.ret = Ok(Some(Some(InnerValue(b, e))))]_vars

(* C11, amended: Ok(Some(Some(v))) is returned when the entry's value has  *)
(* the variant T accepts and is not the identifier `default` or `none`     *)
(* (for T = Ident or Expression the sentinel wins); the entry meant is the *)
(* first one with the name, and any other value fails with "expected <T's  *)
(* name>".                                                                 *)
ThreeOutcomes ==
    [][(/\ last = Idle
        /\ last'.op = "get_key_opt"
        /\ Len(last'.ty) = 2
        /\ last'.ty[1] = "Option"
        /\ last'.ty[2] # "ScaleSize") =>
          LET b == last'.ty[2]
              hits == Hits(key, last'.name)
          IN  IF hits = {} THEN last'.ret = Ok(None)
              ELSE LET e == key[Lowest(hits)].v.value.v
                   IN  IF SpecSentinel(e) THEN last'.ret = Ok(Some(None))
                       ELSE IF e.tag \in SpecAccepts(b)
                            THEN last'.ret = Ok(Some(Some(InnerValue(b, e))))
                            ELSE last'.ret = SpecExpected(last'.ty)]_vars

\* Option<f64> has met the sentinel: presence of the entry, absence inside.
ThreeOutcomesWitness ==
    /\ last.op = "get_key_opt"
    /\ last.ty = <<"Option", "f64">>
    /\ last.taken # <<>>
    /\ last.ret = Ok(Some(None))

---------------------------------------------------------------------------
PosExtractions == {"get_pos", "get_pos_opt", "pos"}
NamedExtractions == {"get_key", "get_key_opt"}
KeyExtractions == NamedExtractions \cup {"get_key_next", "keys"}
Extractions == PosExtractions \cup KeyExtractions

\* Whether the extraction call c finds something to take in sequences p and k
HasEntry(c, p, k) ==
    IF c.op \in PosExtractions THEN p # <<>>
    ELSE IF c.op \in NamedExtractions THEN Hits(k, c.name) # {}
    ELSE k # <<>>

(* C12. As claimed: every extraction call mutates the collection: none     *)
(* leaves the positional and keyed sequences both unchanged.               *)
ExtractionMutatesAsClaimed ==
    [][(last = Idle /\ last'.op \in Extractions) =>
          <<pos', key'>> # <<pos, key>>]_vars

(* C12, amended: an extraction call leaves both sequences unchanged        *)
(* exactly when it has nothing to take (pos is empty, no keyed entry has   *)
(* the name, key is empty); otherwise it removes what it takes: the        *)
(* collection shrinks by the entries taken and holds none of them any      *)
(* more, so no call re-reads an entry.                                     *)
ExtractionMutates ==
    [][(last = Idle /\ last'.op \in Extractions) =>
          LET had == HasEntry(last', pos, key)
              taken == last'.taken
          IN  /\ (<<pos', key'>> = <<pos, key>>) <=> ~had
              /\ had <=> taken # <<>>
              /\ Len(pos') + Len(key') = Len(pos) + Len(key) - Len(taken)
              /\ Range(pos') \subseteq Range(pos)
              /\ Range(key') \subseteq Range(key)
              /\ \A i \in DOMAIN taken :
                    IF last'.op \in PosExtractions
                    THEN taken[i] \in Range(pos) \ Range(pos')
                    ELSE taken[i] \in Range(key) \ Range(key')]_vars

\* get_key_next has taken an entry out of a keyed sequence of several.
ExtractionMutatesWitness ==
    /\ last.op = "get_key_next"
    /\ last.taken # <<>>
    /\ last.ret = Some(last.taken[1])
    /\ key # <<>>

---------------------------------------------------------------------------
(* C13. The drain iterators are one-shot: pos() yields exactly the         *)
(* positional entries remaining at call time in their original order and   *)
(* leaves pos empty; keys() yields exactly the keyed entries remaining at  *)
(* call time and leaves key empty; a second call with no add in between    *)
(* yields nothing.                                                         *)
OneShotDrain ==
    [][(last = Idle /\ last'.op \in {"pos", "keys"}) =>
          LET items == last'.ret.items
          IN  IF last'.op = "pos"
              THEN /\ items = pos
                   /\ \A i, j \in DOMAIN items :
                         i < j => items[i].span < items[j].span
                   /\ pos' = <<>>
                   /\ pos_iter(pos').ret.items = <<>>
              ELSE /\ Len(items) = Len(key)
                   /\ Range(items) = Range(key)
                   /\ key' = <<>>
                   /\ keys(key').ret.items = <<>>]_vars

\* pos() has yielded several entries and emptied the positional sequence.
OneShotDrainWitness ==
    /\ last.op = "pos"
    /\ Len(last.ret.items) >= 2
    /\ pos = <<>>

---------------------------------------------------------------------------
\* The entries returned by calling get_key_next on k until it returns
\* absence, in the order returned (at most n calls).
RECURSIVE Leftovers(_, _)
Leftovers(k, n) ==
    LET c == get_key_next(k)
    IN  IF n = 0 \/ c.ret = None THEN <<>>
        ELSE <<c.ret.v>> \o Leftovers(c.seq, n - 1)

(* C14. get_key_next removes and returns one keyed entry present at call   *)
(* time, whatever its name, and returns absence iff the keyed sequence is  *)
(* empty; so after any by-name extractions, repeated get_key_next calls    *)
(* return exactly the keyed entries not yet extracted, each once, and      *)
(* then absence.                                                           *)
LeftoverRetrieval ==
    [][(last = Idle /\ last'.op \in {"get_key", "get_key_opt", "get_key_next"}) =>
          /\ last'.op = "get_key_next" =>
                /\ last'.ret = None <=> key = <<>>
                /\ key # <<>> =>
                      /\ last'.ret.some
                      /\ last'.ret.v \in Range(key)
                      /\ last'.ret.v \notin Range(key')
                      /\ Len(key') = Len(key) - 1
          /\ LET rest == Leftovers(key', MaxArgs + 1)
                 left == Range(keyAdded') \ (Range(keyTaken') \cup keyDropped')
             IN  /\ Len(rest) = Cardinality(left)
                 /\ Range(Spans(rest)) = left
                 /\ Range(rest) = Range(key')
                 /\ get_key_next(<<>>).ret = None]_vars

\* A by-name extraction took one entry, and get_key_next would hand out
\* the two that are left, whatever their names.
LeftoverRetrievalWitness ==
    /\ last.op = "get_key_opt"
    /\ last.taken # <<>>
    /\ Len(Leftovers(key, MaxArgs + 1)) = 2

---------------------------------------------------------------------------
(* C15. clear discards all remaining positional and keyed entries: right   *)
(* after clear, from any state, is_empty is true, get_pos_opt and          *)
(* get_key_opt (for any name) return absence, get_key_next returns         *)
(* absence, and no entry added before the clear is returned by a later     *)
(* extraction.                                                             *)
ClearDiscards ==
    /\ last.op = "clear" =>
          /\ is_empty(pos, key)
          /\ \A T \in CallTypes :
                /\ get_pos_opt(T, pos).ret = Ok(None)
                /\ \A n \in Names : get_key_opt(T, key, n).ret = Ok(None)
          /\ get_key_next(key).ret = None
          /\ pos_iter(pos).ret.items = <<>>
          /\ keys(key).ret.items = <<>>
    /\ posDropped \cap (Range(posTaken) \cup Range(Spans(pos))) = {}
    /\ keyDropped \cap (Range(keyTaken) \cup Range(Spans(key))) = {}
    /\ \A i, j \in DOMAIN posTaken : posTaken[i] = posTaken[j] => i = j
    /\ \A i, j \in DOMAIN keyTaken : keyTaken[i] = keyTaken[j] => i = j
    /\ last.op \in PosExtractions => Range(Spans(last.taken)) \cap posDropped = {}
    /\ last.op \in KeyExtractions => Range(Spans(last.taken)) \cap keyDropped = {}

\* clear has just discarded entries of both sequences.
ClearDiscardsWitness ==
    /\ last.op = "clear"
    /\ posDropped # {}
    /\ keyDropped # {}

---------------------------------------------------------------------------
(* C16. When get_key_opt(name) finds a match it removes the lowest-index   *)
(* keyed entry whose key text equals name; the entry that was last takes   *)
(* the removed entry's slot, every other entry keeps its index, and the    *)
(* keyed sequence shrinks by exactly one.                                  *)
SwapRemoveLookup ==
    [][(/\ last = Idle
        /\ last'.op = "get_key_opt"
        /\ Hits(key, last'.name) # {}) =>
          LET i == Lowest(Hits(key, last'.name))
              n == Len(key)
          IN  /\ last'.taken = <<key[i]>>
              /\ Len(key') = n - 1
              /\ i < n => key'[i] = key[n]
              /\ \A j \in 1..(n - 1) : j # i => key'[j] = key[j]]_vars

\* With keys [b, a, a] the lookup of b moved the later a to the front, so
\* the lookup of a returned the duplicate added last and left the earlier.
SwapRemoveLookupWitness ==
    /\ last.op = "get_key_opt"
    /\ Len(last.taken) = 1
    /\ Len(key) = 1
    /\ key[1].v.key.v = last.taken[1].v.key.v
    /\ key[1].span < last.taken[1].span

---------------------------------------------------------------------------
(* C17. A failed extraction still consumes its argument: when get_pos or   *)
(* get_pos_opt fails because the first positional value does not match     *)
(* the destination type, that value has been removed and the next          *)
(* positional extraction sees the following argument; when get_key or      *)
(* get_key_opt(name) fails on a type mismatch, the matched keyed entry has *)
(* been removed and a retry with the same name does not find it. The       *)
(* collection is not left unchanged on error.                              *)
FailureConsumes ==
    [][(last = Idle /\ last'.op \in {"get_pos", "get_pos_opt", "get_key", "get_key_opt"}) =>
          LET T == last'.ty
              name == last'.name
              hits == Hits(key, name)
          IN  /\ (/\ last'.op \in {"get_pos", "get_pos_opt"}
                  /\ pos # <<>>
                  /\ ~Matches(T, pos[1].v)) =>
                    /\ last'.ret = SpecExpected(T)
                    /\ pos' = Tail(pos)
                    /\ pos' # pos
                    /\ \A U \in CallTypes :
                          get_pos_opt(U, pos').taken =
                             IF Len(pos) >= 2 THEN <<pos[2]>> ELSE <<>>
              /\ (/\ last'.op \in {"get_key", "get_key_opt"}
                  /\ hits # {}
                  /\ ~Matches(T, key[Lowest(hits)].v.value.v)) =>
                    LET e == key[Lowest(hits)]
                    IN  /\ last'.ret = SpecExpected(T)
                        /\ e \notin Range(key')
                        /\ Len(key') = Len(key) - 1
                        /\ key' # key
                        /\ \A U \in CallTypes :
                              /\ get_key_opt(U, key', name).taken # <<e>>
                              /\ Hits(key, name) = {Lowest(hits)} =>
                                    get_key_opt(U, key', name).ret = Ok(None)]_vars

\* get_key_opt failed on a type mismatch, its entry is gone and a retry
\* with the same name finds nothing, while another entry is still there.
FailureConsumesWitness ==
    /\ last.op = "get_key_opt"
    /\ ~last.ret.ok
    /\ Len(last.taken) = 1
    /\ key # <<>>
    /\ Hits(key, last.name) = {}

---------------------------------------------------------------------------
\* No value occurs twice in the sequence s
Distinct(s) == \A i, j \in DOMAIN s : s[i] = s[j] => i = j

(* C18. Conservation: as long as clear has discarded nothing, no entry is  *)
(* duplicated or invented; every added entry is either still in its       *)
(* sequence or has been handed to exactly one extraction call, so entries  *)
(* remaining plus entries consumed equal entries added, separately for     *)
(* positional and keyed entries.                                           *)
Conservation ==
    (posDropped = {} /\ keyDropped = {}) =>
       /\ Len(pos) + Len(posTaken) = Len(posAdded)
       /\ Len(key) + Len(keyTaken) = Len(keyAdded)
       /\ Distinct(Spans(pos) \o posTaken)
       /\ Distinct(Spans(key) \o keyTaken)
       /\ Range(Spans(pos)) \cup Range(posTaken) = Range(posAdded)
       /\ Range(Spans(key)) \cup Range(keyTaken) = Range(keyAdded)
       /\ Range(posAdded) \cap Range(keyAdded) = {}

\* Entries of both kinds have been consumed, one of them by a failed
\* coercion, and a positional entry remains.
ConservationWitness ==
    /\ posDropped = {} /\ keyDropped = {}
    /\ posTaken # <<>>
    /\ keyTaken # <<>>
    /\ pos # <<>>
    /\ last.op = "get_key"
    /\ ~last.ret.ok
    /\ last.taken # <<>>

---------------------------------------------------------------------------
(* C19. Independence of the two sequences: add_pos, get_pos, get_pos_opt   *)
(* and pos() leave the keyed sequence unchanged; add_key, get_key,         *)
(* get_key_opt, get_key_next and keys() leave the positional sequence      *)
(* unchanged, whether the call succeeds, returns absence or fails;         *)
(* is_empty changes neither.                                               *)
Independence ==
    [][last = Idle =>
          /\ last'.op \in {"add_pos"} \cup PosExtractions => key' = key
          /\ last'.op \in {"add_key"} \cup KeyExtractions => pos' = pos
          /\ last'.op = "is_empty" => (pos' = pos /\ key' = key)]_vars

\* get_pos has failed on a value of another type and removed it, with
\* keyed entries in the collection.
IndependenceWitness ==
    /\ last.op = "get_pos"
    /\ ~last.ret.ok
    /\ last.taken # <<>>
    /\ key # <<>>
    /\ keyTaken = <<>>

---------------------------------------------------------------------------
\* The number of entries in the collection
Remaining == Len(pos) + Len(key)

\* The number of entries added so far
Added == Len(posAdded) + Len(keyAdded)

(* C20. Draining terminates: once no further add_pos / add_key occurs (in  *)
(* every behaviour the adds stop, their number being bounded), a caller    *)
(* that keeps calling get_pos_opt and get_key_next while is_empty          *)
(* is false reaches a state where is_empty is true, after exactly as many  *)
(* removing calls as there were entries (every such call removes one entry *)
(* or, finding its sequence empty, none); once empty the collection stays  *)
(* empty until an add, and every extraction returns absence, or the        *)
(* strict form's failure.                                                  *)
DrainTerminates ==
    /\ ~is_empty(pos, key) ~> is_empty(pos, key)
    /\ [][(last = Idle /\ last'.op \in {"get_pos_opt", "get_key_next"}) =>
             /\ Remaining' = Remaining - Len(last'.taken)
             /\ Len(last'.taken) =
                   IF last'.op = "get_pos_opt"
                   THEN (IF pos = <<>> THEN 0 ELSE 1)
                   ELSE (IF key = <<>> THEN 0 ELSE 1)
             /\ is_empty(pos, key) =>
                   /\ is_empty(pos', key')
                   /\ last'.ret = (IF last'.op = "get_pos_opt" THEN Ok(None) ELSE None)]_vars
    /\ [](is_empty(pos, key) =>
             /\ Len(posTaken) + Len(keyTaken) = Added
             /\ get_key_next(key) = [ret |-> None, seq |-> <<>>, taken |-> <<>>]
             /\ pos_iter(pos).ret.items = <<>>
             /\ keys(key).ret.items = <<>>
             /\ \A T \in CallTypes :
                   /\ get_pos_opt(T, pos) =
                         [ret |-> Ok(None), seq |-> <<>>, taken |-> <<>>]
                   /\ get_pos(T, pos) =
                         [ret |-> SpecExpected(T), seq |-> <<>>, taken |-> <<>>]
                   /\ \A name \in Names :
                         /\ get_key_opt(T, key, name) =
                               [ret |-> Ok(None), seq |-> <<>>, taken |-> <<>>]
                         /\ get_key(T, key, name) =
                               [ret |-> SpecExpected(T), seq |-> <<>>, taken |-> <<>>])

\* The loop has drained a collection of positional and keyed entries: the
\* last removing call has emptied it.
DrainTerminatesWitness ==
    /\ is_empty(pos, key)
    /\ posTaken # <<>>
    /\ keyTaken # <<>>
    /\ last.op \in {"get_pos_opt", "get_key_next"}
    /\ Len(last.taken) = 1
    /\ Len(posTaken) + Len(keyTaken) = MaxArgs

===========================================================================
